---- MODULE Spec2Model ----
(***************************************************************************)
(* gitnot: snapshot-and-changelog tool (main.go).                          *)
(*                                                                         *)
(* The model's state is the on-disk state the tool reads and writes: the   *)
(* working files, and under .gitnot/ the snapshot mirror, the deleted      *)
(* store, hashes.json, version.txt and the per-file changelogs.  One run   *)
(* of updateGitnot is a sequence of steps (pc) in source order, so that    *)
(* the order of its writes is visible.                                     *)
(*                                                                         *)
(* A path is the sequence of its segments (<<"sub", "a.txt">> is           *)
(* sub/a.txt).  A line is the sequence of its characters, and a file's     *)
(* text is the sequence of the lines between its newlines, so that the     *)
(* empty file is one empty line.  A version is counted in tenths (3 is     *)
(* 0.3).                                                                   *)
(***************************************************************************)
EXTENDS Integers, Sequences, FiniteSets, TLC

\* ------------------------------------------------------------------ bounds

\* Number of calls that write (initGitnot, and updateGitnot when it detects
\* changes) explored after the first initGitnot.
MaxRuns == 2

\* Highest version, in tenths, that the version counter is taken to.
MaxVersion == 20

\* The minute up to which the wall clock is let run.
MaxClock == 2

\* -------------------------------------------------------------- the domain

Paths == {<<"a.txt">>, <<"sub", "a.txt">>}

Contents == {<< <<"x">> >>, << <<"y">> >>}

VARIABLES
    work,            \* working files: path -> text, for the files that exist
    unreadable,      \* working files that cannot be opened
    initialized,     \* .gitnot exists
    snapshotExists,  \* .gitnot/snapshot exists
    snapshot,        \* .gitnot/snapshot: path -> text
    deleted,         \* .gitnot/deleted: path -> text
    hashes,          \* .gitnot/hashes.json: [exists, map]
    versionFile,     \* .gitnot/version.txt: [exists, text]
    changelog,       \* .gitnot/changelogs/<path>.log: path -> entries
    pc,              \* position of the running updateGitnot ("idle": none)
    oldHashes,       \* updateGitnot's local oldHashes
    current,         \* updateGitnot's local current
    ver,             \* updateGitnot's local ver
    ts,              \* updateGitnot's local ts (0 while no run is under way)
    out,             \* what the last call printed or returned, until the
                     \* working files are next edited
    runs,            \* calls that wrote, after the first initGitnot
    faulted,         \* the environment has failed once (an I/O error, or a
                     \* file made unreadable); behaviours with at most one
                     \* such failure are explored
    now              \* the wall clock, in minutes

vars == <<work, unreadable, initialized, snapshotExists, snapshot, deleted,
          hashes, versionFile, changelog, pc, oldHashes, current, ver, ts,
          out, runs, faulted, now>>

stores == <<initialized, snapshotExists, snapshot, deleted, hashes,
            versionFile, changelog>>

locals == <<oldHashes, current, ver, ts>>

env == <<runs, faulted, now>>

\* ----------------------------------------------------------------- helpers

EmptyMap == [p \in {} |-> <<>>]

Restrict(f, S) == [p \in S |-> f[p]]

\* f with the files of g written over it
Overlay(f, g) ==
    [p \in DOMAIN f \cup DOMAIN g |-> IF p \in DOMAIN g THEN g[p] ELSE f[p]]

\* filepath.Base
Base(p) == p[Len(p)]

\* os.Open succeeds on a working file
CanOpen(p) == p \in DOMAIN work /\ p \notin unreadable

EmptyLine == <<>>

\* the text of the empty file
EmptyText == <<EmptyLine>>

\* os.ReadFile, errors dropped (unifiedDiff): no text when it cannot be read
ReadWork(p) == IF CanOpen(p) THEN work[p] ELSE EmptyText

\* faulty variant of hashFile: the name is hashed, not the content
hashFileOfName(p) == <<"sha1", Base(p)>>

\* the SHA-1 of the content in hexadecimal (taken to have no collisions), or
\* the sentinel when the file cannot be opened
hashFile(p) ==
    IF CanOpen(p) THEN <<"sha1">> \o work[p] ELSE <<"unreadable-", Base(p)>>

\* faulty variant of NotInitialized: the state directory is not looked for
NotInitializedNever == FALSE

\* os.Stat(gitnotDir) reports that it does not exist (main.go 352, 462)
NotInitialized == ~initialized

\* faulty variant of MirrorMissing: the snapshot directory is not looked for
MirrorMissingNever == FALSE

\* os.Stat(snapshotDir) fails (main.go 416)
MirrorMissing == ~snapshotExists

\* getAllTextFiles: the tracked files that exist (its order is not modelled:
\* no write depends on it)
getAllTextFiles == DOMAIN work

\* hashes.json is a record: exists (the file is there), valid (json.Unmarshal
\* into map[string]string returns no error) and map, what json.Unmarshal
\* stores into the target: the whole map of a valid file; nothing when the
\* text is not JSON (the syntax is checked before anything is stored); the
\* well-typed entries, and possibly zero values for the others, when a value
\* is not a string.

\* main.go 61-67: the error loadJSON returns
loadJSONErr(file) == ~file.exists \/ ~file.valid

\* main.go 61-67: what loadJSON leaves in its target, error or not
loadJSON(file) == IF file.exists THEN file.map ELSE EmptyMap

\* main.go 355-356: updateGitnot replaces the map by an empty one on an error
loadOldHashes(file) == IF loadJSONErr(file) THEN EmptyMap ELSE loadJSON(file)

\* faulty variant of saveJSON: the file is not written
saveJSONLost(m) == [exists |-> FALSE, valid |-> FALSE, map |-> m]

saveJSON(m) == [exists |-> TRUE, valid |-> TRUE, map |-> m]

\* faulty variant of FormatVersion: "%.0f", no fractional digit
FormatVersionNoDigit(v) == <<(v + 5) \div 10, 0>>

\* fmt.Sprintf("%.1f", v) of v tenths: integer part, fractional digit
FormatVersion(v) == <<v \div 10, v % 10>>

\* strconv.ParseFloat accepts the text (an empty file is not a number)
Parsable(t) == Len(t) = 2

\* strconv.ParseFloat of that text, in tenths
ParseVersion(t) == t[1] * 10 + t[2]

\* 0.0 when version.txt does not exist or does not parse
readVersion ==
    IF versionFile.exists /\ Parsable(versionFile.text)
    THEN ParseVersion(versionFile.text)
    ELSE 0

writeVersion(v) == [exists |-> TRUE, text |-> FormatVersion(v)]

\* what (v+0.1)*10 can be off by in binary floating point, in hundredths
\* (0.7+0.1 is 0.7999999999999999, 0.2+0.1 is 0.30000000000000004)
FloatErr == {-1, 0, 1}

\* faulty variant of bumpVersion: int((v+0.1)*10), without the 0.5
bumpVersionTruncating(v, e) == ((v + 1) * 100 + e) \div 100

\* float64(int((v+0.1)*10+0.5)) / 10.0, v in tenths: the sum in hundredths
\* with its error e, truncated to a whole number of tenths
bumpVersion(v, e) == ((v + 1) * 100 + e + 50) \div 100

\* faulty variant of appendToFile: O_TRUNC in place of O_APPEND
appendTruncating(log, entry) == <<entry>>

\* appendToFile: O_APPEND
appendToFile(log, entry) == Append(log, entry)

\* ---------------------------------------------------------- classification

NewFiles(old, cur) == {f \in DOMAIN cur : f \notin DOMAIN old}

\* faulty variant of ChangedFiles: the "ok &&" test is missing, so a path
\* without a stored fingerprint differs from its zero value
ChangedFilesNoOk(old, cur) ==
    {f \in DOMAIN cur : f \notin DOMAIN old \/ old[f] # cur[f]}

ChangedFiles(old, cur) ==
    {f \in DOMAIN cur : f \in DOMAIN old /\ old[f] # cur[f]}

DeletedFiles(old, cur) == {f \in DOMAIN old : f \notin DOMAIN cur}

\* faulty variant of CurrentHashes: files that cannot be opened are left out
CurrentHashesReadable ==
    [f \in {g \in getAllTextFiles : CanOpen(g)} |-> hashFile(f)]

CurrentHashes == [f \in getAllTextFiles |-> hashFile(f)]

\* faulty variant of NoChanges: "< 0" in place of "== 0"
NoChangesNever(old, cur) ==
    Cardinality(NewFiles(old, cur)) + Cardinality(ChangedFiles(old, cur))
        + Cardinality(DeletedFiles(old, cur)) < 0

NoChanges(old, cur) ==
    Cardinality(NewFiles(old, cur)) + Cardinality(ChangedFiles(old, cur))
        + Cardinality(DeletedFiles(old, cur)) = 0

\* ------------------------------------------------------- changelog entries

\* an entry without a timestamp (ts 0), as initGitnot writes it
Entry(v, body) ==
    [ver |-> v, ts |-> 0, body |-> body, added |-> <<>>, removed |-> <<>>]

\* faulty variant of Stamp: time.Now() is called for each entry
StampNow == now

\* the timestamp in the header of the entries of a run (main.go 373)
Stamp == ts

\* the entry under the header "## v<ver> - <ts>"
Stamped(e) == [e EXCEPT !.ts = Stamp]

\* an entry body that is one fixed line
Note(text) == [body |-> text, added |-> <<>>, removed |-> <<>>]

\* strings.HasPrefix
HasPrefix(s, pre) == Len(s) >= Len(pre) /\ SubSeq(s, 1, Len(pre)) = pre

RECURSIVE TrimLeft(_)
TrimLeft(s) == IF s # <<>> /\ s[1] = " " THEN TrimLeft(Tail(s)) ELSE s

RECURSIVE TrimRight(_)
TrimRight(s) ==
    IF s # <<>> /\ s[Len(s)] = " "
    THEN TrimRight(SubSeq(s, 1, Len(s) - 1))
    ELSE s

\* strings.TrimSpace
TrimSpace(s) == TrimRight(TrimLeft(s))

\* the blocks a[i+1 .. i+k] = b[j+1 .. j+k] within a(alo..ahi], b(blo..bhi]
Matches(a, b, alo, ahi, blo, bhi) ==
    {m \in (alo..(ahi - 1)) \X (blo..(bhi - 1)) \X (1..(ahi - alo)) :
        /\ m[1] + m[3] <= ahi
        /\ m[2] + m[3] <= bhi
        /\ SubSeq(a, m[1] + 1, m[1] + m[3]) = SubSeq(b, m[2] + 1, m[2] + m[3])}

\* difflib's longest match: the longest block, of those the one that starts
\* earliest in a, of those the one that starts earliest in b
LongestMatch(a, b, alo, ahi, blo, bhi) ==
    LET M == Matches(a, b, alo, ahi, blo, bhi)
    IN IF M = {}
       THEN <<alo, blo, 0>>
       ELSE CHOOSE m \in M : \A n \in M :
                \/ m[3] > n[3]
                \/ m[3] = n[3] /\ m[1] < n[1]
                \/ m[3] = n[3] /\ m[1] = n[1] /\ m[2] <= n[2]

\* difflib's matching blocks: the longest match, then the same to its left
\* and to its right
RECURSIVE MatchingBlocks(_, _, _, _, _, _)
MatchingBlocks(a, b, alo, ahi, blo, bhi) ==
    LET m == LongestMatch(a, b, alo, ahi, blo, bhi)
    IN IF m[3] = 0
       THEN <<>>
       ELSE MatchingBlocks(a, b, alo, m[1], blo, m[2])
               \o <<m>>
               \o MatchingBlocks(a, b, m[1] + m[3], ahi, m[2] + m[3], bhi)

\* a line of the diff text; only a hunk header "@@ -a,b +c,d @@" carries
\* numbers
DiffLine(text) == [text |-> text, oldStart |-> 0, newStart |-> 0]

Prefixed(c, lines) == [i \in 1..Len(lines) |-> DiffLine(<<c>> \o lines[i])]

\* the lines of a hunk: between two matching blocks the lines of a with "-",
\* then the lines of b with "+"; the lines of a block with " "
RECURSIVE HunkLines(_, _, _, _, _)
HunkLines(a, b, blocks, i, j) ==
    IF blocks = <<>>
    THEN Prefixed("-", SubSeq(a, i + 1, Len(a)))
            \o Prefixed("+", SubSeq(b, j + 1, Len(b)))
    ELSE LET m == Head(blocks)
         IN Prefixed("-", SubSeq(a, i + 1, m[1]))
               \o Prefixed("+", SubSeq(b, j + 1, m[2]))
               \o Prefixed(" ", SubSeq(a, m[1] + 1, m[1] + m[3]))
               \o HunkLines(a, b, Tail(blocks), m[1] + m[3], m[2] + m[3])

\* the first line number a hunk header gives for the range start..stop
FormatRangeStart(start, stop) == IF stop = start THEN start ELSE start + 1

\* the text unifiedDiff returns: none when the two texts are the same,
\* else the two file headers and, for texts of at most four lines (three
\* lines of context), one hunk that holds both texts whole
unifiedDiff(old, new) ==
    IF old = new
    THEN <<>>
    ELSE <<DiffLine(<<"-", "-", "-", " ", "b", "e", "f", "o", "r", "e">>),
           DiffLine(<<"+", "+", "+", " ", "a", "f", "t", "e", "r">>),
           [text |-> <<"@", "@">>,
            oldStart |-> FormatRangeStart(0, Len(old)),
            newStart |-> FormatRangeStart(0, Len(new))]>>
            \o HunkLines(old, new,
                         MatchingBlocks(old, new, 0, Len(old), 0, Len(new)),
                         0, 0)

\* strings.Split(diffText, "\n"): the text ends with a newline, so the last
\* element is empty
SplitDiff(diffText) == diffText \o <<DiffLine(EmptyLine)>>

\* the loop of formatDiffAsMarkdown (main.go 247-294)
RECURSIVE scanDiff(_, _, _, _, _, _)
scanDiff(lines, i, oldLn, newLn, added, removed) ==
    IF i > Len(lines)
    THEN [body |-> "diff", added |-> added, removed |-> removed]
    ELSE LET line == lines[i].text
         IN IF HasPrefix(line, <<"@", "@">>)
            THEN scanDiff(lines, i + 1, lines[i].oldStart, lines[i].newStart,
                          added, removed)
            ELSE IF /\ HasPrefix(line, <<"-">>)
                    /\ i + 1 <= Len(lines)
                    /\ HasPrefix(lines[i + 1].text, <<"+">>)
                    /\ TrimSpace(Tail(line)) = TrimSpace(Tail(lines[i + 1].text))
            THEN scanDiff(lines, i + 2, oldLn + 1, newLn + 1, added, removed)
            ELSE IF HasPrefix(line, <<"-">>)
                    /\ ~HasPrefix(line, <<"-", "-", "-">>)
            THEN scanDiff(lines, i + 1, oldLn + 1, newLn, added,
                          Append(removed,
                                 [ln |-> oldLn, text |-> TrimSpace(Tail(line))]))
            ELSE IF HasPrefix(line, <<"+">>)
                    /\ ~HasPrefix(line, <<"+", "+", "+">>)
            THEN scanDiff(lines, i + 1, oldLn, newLn + 1,
                          Append(added,
                                 [ln |-> newLn, text |-> TrimSpace(Tail(line))]),
                          removed)
            ELSE IF HasPrefix(line, <<"\\">>)
            THEN scanDiff(lines, i + 1, oldLn, newLn, added, removed)
            ELSE scanDiff(lines, i + 1, oldLn + 1, newLn + 1, added, removed)

\* the Added and the Removed section of a changelog entry
formatDiffAsMarkdown(diffText) ==
    IF diffText = <<>>
    THEN Note("File changed (no readable diff)")
    ELSE scanDiff(SplitDiff(diffText), 1, 0, 0, <<>>, <<>>)

\* faulty variant of ChangedBody: no os.Stat of the snapshot copy; a missing
\* copy is diffed as an empty file
ChangedBodyNoStat(rel) ==
    LET old == IF rel \in DOMAIN snapshot THEN snapshot[rel] ELSE EmptyText
    IN IF unifiedDiff(old, ReadWork(rel)) # <<>>
       THEN formatDiffAsMarkdown(unifiedDiff(old, ReadWork(rel)))
       ELSE Note("File changed (no readable diff)")

\* the entry body written for a changed file (main.go 389-398)
ChangedBody(rel) ==
    IF rel \in DOMAIN snapshot
    THEN IF unifiedDiff(snapshot[rel], ReadWork(rel)) # <<>>
         THEN formatDiffAsMarkdown(unifiedDiff(snapshot[rel], ReadWork(rel)))
         ELSE Note("File changed (no readable diff)")
    ELSE Note("File changed (encoding issues, diff skipped)")

\* the entry written for a changed file
ChangedEntry(v, rel) ==
    [ver |-> v, ts |-> Stamp, body |-> ChangedBody(rel).body,
     added |-> ChangedBody(rel).added, removed |-> ChangedBody(rel).removed]

\* ----------------------------------------------------------------- initial

Init ==
    /\ work \in UNION {[S -> Contents] : S \in SUBSET Paths}
    /\ unreadable = {}
    /\ initialized = FALSE
    /\ snapshotExists = FALSE
    /\ snapshot = EmptyMap
    /\ deleted = EmptyMap
    /\ hashes = [exists |-> FALSE, valid |-> FALSE, map |-> EmptyMap]
    /\ versionFile = [exists |-> FALSE, text |-> <<0, 0>>]
    /\ changelog = [p \in Paths |-> <<>>]
    /\ pc = "idle"
    /\ oldHashes = EmptyMap
    /\ current = EmptyMap
    /\ ver = 0
    /\ ts = 0
    /\ out = {}
    /\ runs = 0
    /\ faulted = FALSE
    /\ now = 0

\* ------------------------------------------------------- the user's edits

WriteFile(p, c) ==
    /\ pc = "idle"
    /\ p \notin unreadable
    /\ work' = Overlay(work, [q \in {p} |-> c])
    /\ out' = {}
    /\ UNCHANGED <<unreadable, stores, pc, locals, env>>

RemoveFile(p) ==
    /\ pc = "idle"
    /\ p \in DOMAIN work
    /\ work' = Restrict(work, DOMAIN work \ {p})
    /\ unreadable' = unreadable \ {p}
    /\ out' = {}
    /\ UNCHANGED <<stores, pc, locals, env>>

\* the file loses its read permission
MakeUnreadable(p) ==
    /\ pc = "idle"
    /\ p \in DOMAIN work
    /\ p \notin unreadable
    /\ ~faulted
    /\ faulted' = TRUE
    /\ unreadable' = unreadable \cup {p}
    /\ out' = {}
    /\ UNCHANGED <<work, stores, pc, locals, runs, now>>

\* -------------------------------------------------------------- initGitnot

\* faulty variant of Copied: the "continue" after a failed copy is missing
CopiedAll(files, bad) == files

\* main.go 336: the files initGitnot goes on with, those whose copyFile into
\* the mirror succeeds; it fails on the files that cannot be opened and on
\* those where the write fails (bad)
Copied(files, bad) == {f \in files : CanOpen(f)} \ bad

initGitnot ==
    /\ pc = "idle"
    /\ initialized => runs < MaxRuns
    /\ runs' = IF initialized THEN runs + 1 ELSE runs
    /\ \E bad \in SUBSET getAllTextFiles :
       LET files == getAllTextFiles
           copied == Copied(files, bad)
       IN /\ bad # {} => ~faulted /\ Cardinality(bad) = 1
          /\ bad \subseteq {f \in files : CanOpen(f)}
          /\ faulted' = (faulted \/ bad # {})
          /\ initialized' = TRUE
          /\ snapshotExists' = TRUE
          /\ snapshot' = Overlay(snapshot, Restrict(work, copied))
          /\ hashes' = saveJSON([f \in copied |-> hashFile(f)])
          /\ changelog' =
                [p \in Paths |->
                    IF p \in copied
                    THEN appendToFile(changelog[p], Entry(0, "original"))
                    ELSE changelog[p]]
          /\ versionFile' = writeVersion(0)
    /\ out' = {"Initialized"}
    /\ UNCHANGED <<work, unreadable, deleted, pc, locals, now>>

\* ------------------------------------------------------------ updateGitnot

\* main.go 351-373: not initialized; load, scan, classify; no changes; bump
updateBegin ==
    /\ pc = "idle"
    /\ UNCHANGED <<work, unreadable, faulted, now>>
    /\ IF NotInitialized
       THEN /\ out' = {"gitnot not initialized"}
            /\ UNCHANGED <<stores, pc, locals, runs>>
       ELSE LET old == loadOldHashes(hashes)
                cur == CurrentHashes
            IN IF NoChanges(old, cur)
               THEN /\ out' = {"No changes detected"}
                    /\ UNCHANGED <<stores, pc, locals, runs>>
               ELSE /\ runs < MaxRuns
                    /\ runs' = runs + 1
                    /\ \E e \in FloatErr :
                          /\ versionFile' =
                                writeVersion(bumpVersion(readVersion, e))
                          /\ ver' = bumpVersion(readVersion, e)
                    /\ ts' = now
                    /\ oldHashes' = old
                    /\ current' = cur
                    /\ pc' = "changelogs"
                    /\ out' = {}
                    /\ UNCHANGED <<initialized, snapshotExists, snapshot,
                                   deleted, hashes, changelog>>

\* main.go 376-399: one entry for each new file and each changed file
updateChangelogs ==
    /\ pc = "changelogs"
    /\ changelog' =
          [p \in Paths |->
              IF p \in NewFiles(oldHashes, current)
              THEN appendToFile(changelog[p],
                                Stamped(Entry(ver, "New file added.")))
              ELSE IF p \in ChangedFiles(oldHashes, current)
              THEN appendToFile(changelog[p], ChangedEntry(ver, p))
              ELSE changelog[p]]
    /\ pc' = "deleted"
    /\ UNCHANGED <<work, unreadable, initialized, snapshotExists, snapshot,
                   deleted, hashes, versionFile, locals, out, env>>

\* how copyFile can go
CopyFates == {"copied", "failed"}

\* the copies that fail
Failed(fate) == {p \in DOMAIN fate : fate[p] = "failed"}

\* faulty variant of RemovedFromSnapshot: os.Remove is not called
RemovedNothing(moved, fate) == {}

\* main.go 411-412: the snapshot copies os.Remove takes away, given how
\* each copyFile into the deleted store went
RemovedFromSnapshot(moved, fate) == moved

\* main.go 401-414: one entry for each deleted file, and its snapshot copy
\* moved to the deleted store
updateDeleted ==
    /\ pc = "deleted"
    /\ LET gone == DeletedFiles(oldHashes, current)
           moved == gone \cap DOMAIN snapshot
       IN /\ changelog' =
                [p \in Paths |->
                    IF p \in gone
                    THEN appendToFile(changelog[p],
                                      Stamped(Entry(ver, "File was deleted.")))
                    ELSE changelog[p]]
          /\ \E fate \in [moved -> CopyFates] :
                /\ Failed(fate) # {} =>
                      ~faulted /\ Cardinality(Failed(fate)) = 1
                /\ faulted' = (faulted \/ Failed(fate) # {})
                /\ deleted' =
                      Overlay(deleted,
                              Restrict(snapshot, moved \ Failed(fate)))
                /\ snapshot' =
                      Restrict(snapshot,
                               DOMAIN snapshot
                                   \ RemovedFromSnapshot(moved, fate))
    /\ pc' = "snapshot"
    /\ UNCHANGED <<work, unreadable, initialized, snapshotExists, hashes,
                   versionFile, locals, out, runs, now>>

\* how the rebuild of main.go 418-448 can go
RebuildFates ==
    {"no temp dir", "copy failed", "remove failed", "rename failed",
     "replaced"}

\* the complete copy of the current tracked files
NewMirror == Restrict(work, getAllTextFiles)

\* main.go 424-435: allOk stays true only if every copy succeeds; a copy
\* fails when the file cannot be opened, and can fail while writing
AllOkPossible == \A f \in getAllTextFiles : CanOpen(f)

\* faulty variant of AfterFailedCopy: the files are copied straight into the
\* mirror, and those that could be copied stay there
AfterFailedCopyInPlace(mirror) ==
    Overlay(mirror, Restrict(work, {f \in getAllTextFiles : CanOpen(f)}))

\* main.go 426, 444-447: the copies went to the temporary directory, which is
\* removed; the mirror is as it was
AfterFailedCopy(mirror) == mirror

\* the rebuild fails although every file can be opened
Injected(fate) ==
    \/ fate \in {"no temp dir", "remove failed", "rename failed"}
    \/ fate = "copy failed" /\ AllOkPossible

\* main.go 416-452: the snapshot mirror is rebuilt in a temporary directory
\* and moved into place; a missing mirror ends the run
updateSnapshot ==
    /\ pc = "snapshot"
    /\ UNCHANGED <<work, unreadable, initialized, deleted, hashes,
                   versionFile, changelog, runs, now>>
    /\ IF MirrorMissing
       THEN /\ out' = out \cup {"Snapshot folder missing"}
            /\ pc' = "idle"
            /\ oldHashes' = EmptyMap
            /\ current' = EmptyMap
            /\ ver' = 0
            /\ ts' = 0
            /\ UNCHANGED <<snapshotExists, snapshot, faulted>>
       ELSE /\ pc' = "save"
            /\ UNCHANGED locals
            /\ \E fate \in RebuildFates :
                  /\ fate \in {"remove failed", "rename failed", "replaced"}
                        => AllOkPossible
                  /\ fate = "copy failed" => getAllTextFiles # {}
                  /\ Injected(fate) => ~faulted
                  /\ faulted' = (faulted \/ Injected(fate))
                  /\ CASE fate = "no temp dir" ->
                             /\ out' = out \cup {"Could not create temp directory"}
                             /\ UNCHANGED <<snapshotExists, snapshot>>
                       [] fate = "copy failed" ->
                             /\ out' = out \cup {"Could not update snapshot"}
                             /\ snapshot' = AfterFailedCopy(snapshot)
                             /\ UNCHANGED snapshotExists
                       [] fate = "remove failed" ->
                             /\ out' = out \cup {"Could not remove old snapshot"}
                             /\ \E left \in SUBSET DOMAIN snapshot :
                                   snapshot' = Restrict(snapshot, left)
                             /\ UNCHANGED snapshotExists
                       [] fate = "rename failed" ->
                             /\ out' = out \cup {"Could not move new snapshot"}
                             /\ snapshot' = EmptyMap
                             /\ snapshotExists' = FALSE
                       [] fate = "replaced" ->
                             /\ out' = out
                             /\ snapshot' = NewMirror
                             /\ UNCHANGED snapshotExists

\* main.go 454-458: hashes.json is written and the summary printed
updateSave ==
    /\ pc = "save"
    /\ hashes' = saveJSON(current)
    /\ out' = out \cup {"Version bumped"}
    /\ pc' = "idle"
    /\ oldHashes' = EmptyMap
    /\ current' = EmptyMap
    /\ ver' = 0
    /\ ts' = 0
    /\ UNCHANGED <<work, unreadable, initialized, snapshotExists, snapshot,
                   deleted, versionFile, changelog, env>>

updateGitnot ==
    updateBegin \/ updateChangelogs \/ updateDeleted \/ updateSnapshot
        \/ updateSave

\* -------------------------------------------------------------- showStatus

\* main.go 474-476: showStatus has its own three loops
statusNewFiles(old, cur) == {f \in DOMAIN cur : f \notin DOMAIN old}

statusChangedFiles(old, cur) ==
    {f \in DOMAIN cur : f \in DOMAIN old /\ old[f] # cur[f]}

statusDeletedFiles(old, cur) == {f \in DOMAIN old : f \notin DOMAIN cur}

\* main.go 477: showStatus's own test for "nothing to report"
statusNoChanges(old, cur) ==
    Cardinality(statusNewFiles(old, cur))
        + Cardinality(statusChangedFiles(old, cur))
        + Cardinality(statusDeletedFiles(old, cur)) = 0

\* what showStatus prints for the three sets (main.go 477-492)
StatusLines(old, cur) ==
    IF statusNoChanges(old, cur)
    THEN {"Status: No changes detected"}
    ELSE {"Status: New files" : f \in statusNewFiles(old, cur)}
            \cup {"Status: Modified" : f \in statusChangedFiles(old, cur)}
            \cup {"Status: Deleted" : f \in statusDeletedFiles(old, cur)}

\* faulty variant of showStatus: it persists the fingerprints it computed
showStatusSaving ==
    /\ pc = "idle"
    /\ ~NotInitialized
    /\ out' = StatusLines(loadJSON(hashes), CurrentHashes)
    /\ hashes' = saveJSON(CurrentHashes)
    /\ UNCHANGED <<work, unreadable, initialized, snapshotExists, snapshot,
                   deleted, versionFile, changelog, pc, locals, env>>

showStatus ==
    /\ pc = "idle"
    /\ out' = IF NotInitialized
              THEN {"gitnot not initialized"}
              ELSE StatusLines(loadJSON(hashes), CurrentHashes)
    /\ UNCHANGED <<work, unreadable, stores, pc, locals, env>>

\* ---------------------------------------------------------- specification

Next ==
    \/ \E p \in Paths, c \in Contents : WriteFile(p, c)
    \/ \E p \in Paths : RemoveFile(p)
    \/ \E p \in Paths : MakeUnreadable(p)
    \/ initGitnot
    \/ updateBegin
    \/ updateChangelogs
    \/ updateDeleted
    \/ updateSnapshot
    \/ updateSave
    \/ showStatus

Spec == Init /\ [][Next]_vars

\* ------------------------------------ specification with interruptions

\* faulty variant of interruptUpdate: the process is stopped after it wrote
\* hashes.json, as if that were written first
interruptAfterSave ==
    /\ pc \in {"changelogs", "deleted", "snapshot", "save"}
    /\ ~faulted
    /\ faulted' = TRUE
    /\ pc' = "idle"
    /\ hashes' = saveJSON(current)
    /\ out' = {"interrupted"}
    /\ UNCHANGED <<work, unreadable, initialized, snapshotExists, snapshot,
                   deleted, versionFile, changelog, locals, runs, now>>

\* the process running updateGitnot is stopped between two of its steps;
\* oldHashes and current keep what the stopped run had computed
interruptUpdate ==
    /\ pc \in {"changelogs", "deleted", "snapshot", "save"}
    /\ ~faulted
    /\ faulted' = TRUE
    /\ pc' = "idle"
    /\ out' = {"interrupted"}
    /\ UNCHANGED <<work, unreadable, stores, locals, runs, now>>

\* edits, gitnot --init and gitnot, and the interruption
CrashNext ==
    \/ \E p \in Paths, c \in Contents : WriteFile(p, c)
    \/ \E p \in Paths : RemoveFile(p)
    \/ \E p \in Paths : MakeUnreadable(p)
    \/ initGitnot
    \/ updateBegin
    \/ updateChangelogs
    \/ updateDeleted
    \/ updateSnapshot
    \/ updateSave
    \/ interruptUpdate

CrashSpec == Init /\ [][CrashNext]_vars

\* ------------------------------------- specification for changelog diffs

\* the texts of a.txt: "x", "y", "x\ny", "--x", " x" and the empty file
DiffTexts ==
    {<< <<"x">> >>, << <<"y">> >>, << <<"x">>, <<"y">> >>,
     << <<"-", "-", "x">> >>, << <<" ", "x">> >>, EmptyText}

DiffPath == <<"a.txt">>

\* a directory that holds a.txt alone, before gitnot --init
DiffInit ==
    /\ work \in [{DiffPath} -> DiffTexts]
    /\ unreadable = {}
    /\ initialized = FALSE
    /\ snapshotExists = FALSE
    /\ snapshot = EmptyMap
    /\ deleted = EmptyMap
    /\ hashes = [exists |-> FALSE, valid |-> FALSE, map |-> EmptyMap]
    /\ versionFile = [exists |-> FALSE, text |-> <<0, 0>>]
    /\ changelog = [p \in Paths |-> <<>>]
    /\ pc = "idle"
    /\ oldHashes = EmptyMap
    /\ current = EmptyMap
    /\ ver = 0
    /\ ts = 0
    /\ out = {}
    /\ runs = 0
    /\ faulted = FALSE
    /\ now = 0

\* a.txt is edited, and gitnot --init and gitnot are run
DiffNext ==
    \/ \E c \in DiffTexts : WriteFile(DiffPath, c)
    \/ initGitnot
    \/ updateBegin
    \/ updateChangelogs
    \/ updateDeleted
    \/ updateSnapshot
    \/ updateSave

DiffSpec == DiffInit /\ [][DiffNext]_vars

\* ------------------------------- specification for the version counter

\* Here runs counts the calls of bumpVersion, ver is what the last of them
\* returned, and faulted tells that version.txt was written by something
\* else (writeVersion called directly, or text that is no number), so that
\* it no longer holds the count of the bumps.

\* version.txt is absent, empty, or holds 0.0; nothing else exists
VersionInit ==
    /\ versionFile \in {[exists |-> FALSE, text |-> <<0, 0>>],
                        [exists |-> TRUE, text |-> <<>>],
                        writeVersion(0)}
    /\ work = EmptyMap
    /\ unreadable = {}
    /\ initialized = FALSE
    /\ snapshotExists = FALSE
    /\ snapshot = EmptyMap
    /\ deleted = EmptyMap
    /\ hashes = [exists |-> FALSE, valid |-> FALSE, map |-> EmptyMap]
    /\ changelog = [p \in Paths |-> <<>>]
    /\ pc = "idle"
    /\ oldHashes = EmptyMap
    /\ current = EmptyMap
    /\ ver = 0
    /\ ts = 0
    /\ out = {}
    /\ runs = 0
    /\ faulted = FALSE
    /\ now = 0

\* writeVersion(v) called directly
VersionWrite(v) ==
    /\ versionFile' = writeVersion(v)
    /\ faulted' = TRUE
    /\ UNCHANGED <<work, unreadable, initialized, snapshotExists, snapshot,
                   deleted, hashes, changelog, pc, locals, out, runs, now>>

\* version.txt is replaced by text that is no number
VersionGarble ==
    /\ versionFile' = [exists |-> TRUE, text |-> <<>>]
    /\ faulted' = TRUE
    /\ UNCHANGED <<work, unreadable, initialized, snapshotExists, snapshot,
                   deleted, hashes, changelog, pc, locals, out, runs, now>>

\* bumpVersion()
VersionBump ==
    /\ readVersion < MaxVersion
    /\ runs < MaxVersion
    /\ \E e \in FloatErr :
          /\ versionFile' = writeVersion(bumpVersion(readVersion, e))
          /\ ver' = bumpVersion(readVersion, e)
    /\ runs' = runs + 1
    /\ UNCHANGED <<work, unreadable, initialized, snapshotExists, snapshot,
                   deleted, hashes, changelog, pc, oldHashes, current, ts,
                   out, faulted, now>>

VersionNext ==
    \/ \E v \in 0..MaxVersion : VersionWrite(v)
    \/ VersionGarble
    \/ VersionBump

VersionSpec == VersionInit /\ [][VersionNext]_vars

\* ----------------------------------------- specification with the clock

\* a minute passes
Tick ==
    /\ now < MaxClock
    /\ now' = now + 1
    /\ UNCHANGED <<work, unreadable, stores, pc, locals, out, runs, faulted>>

\* edits, gitnot --init and gitnot, while time passes
ClockNext ==
    \/ \E p \in Paths, c \in Contents : WriteFile(p, c)
    \/ \E p \in Paths : RemoveFile(p)
    \/ initGitnot
    \/ updateBegin
    \/ updateChangelogs
    \/ updateDeleted
    \/ updateSnapshot
    \/ updateSave
    \/ Tick

\* a directory with files before gitnot --init, at minute 1; no failure of
\* the environment is explored here (faulted from the start)
ClockInit ==
    /\ work \in UNION {[S -> Contents] : S \in SUBSET Paths}
    /\ unreadable = {}
    /\ initialized = FALSE
    /\ snapshotExists = FALSE
    /\ snapshot = EmptyMap
    /\ deleted = EmptyMap
    /\ hashes = [exists |-> FALSE, valid |-> FALSE, map |-> EmptyMap]
    /\ versionFile = [exists |-> FALSE, text |-> <<0, 0>>]
    /\ changelog = [p \in Paths |-> <<>>]
    /\ pc = "idle"
    /\ oldHashes = EmptyMap
    /\ current = EmptyMap
    /\ ver = 0
    /\ ts = 0
    /\ out = {}
    /\ runs = 0
    /\ faulted = TRUE
    /\ now = 1

ClockSpec == ClockInit /\ [][ClockNext]_vars

\* ------------------------------------------------- a damaged hashes.json
\* As Spec, and hashes.json can be damaged once between two runs, in place of
\* any other failure.

\* hashes.json is removed
removeHashes ==
    /\ pc = "idle" /\ initialized /\ ~faulted
    /\ hashes.exists
    /\ hashes' = [exists |-> FALSE, valid |-> FALSE, map |-> EmptyMap]
    /\ faulted' = TRUE
    /\ out' = {}
    /\ UNCHANGED <<work, unreadable, initialized, snapshotExists, snapshot,
                   deleted, versionFile, changelog, pc, locals, runs, now>>

\* hashes.json is overwritten with text that is not JSON, or cut short
garbleHashes ==
    /\ pc = "idle" /\ initialized /\ ~faulted
    /\ hashes.exists
    /\ hashes' = [exists |-> TRUE, valid |-> FALSE, map |-> EmptyMap]
    /\ faulted' = TRUE
    /\ out' = {}
    /\ UNCHANGED <<work, unreadable, initialized, snapshotExists, snapshot,
                   deleted, versionFile, changelog, pc, locals, runs, now>>

\* the values of some keys of hashes.json are replaced by JSON values that
\* are not strings: json.Unmarshal returns an UnmarshalTypeError after it has
\* decoded the other entries; an entry it could not decode is stored with
\* the zero value (stored) or not at all
mistypeHashes ==
    /\ pc = "idle" /\ initialized /\ ~faulted
    /\ hashes.exists /\ hashes.valid
    /\ \E bad \in SUBSET DOMAIN hashes.map :
          \E stored \in SUBSET bad :
             /\ bad # {}
             /\ hashes' =
                   [exists |-> TRUE, valid |-> FALSE,
                    map |-> [f \in (DOMAIN hashes.map \ bad) \cup stored |->
                               IF f \in stored THEN <<>> ELSE hashes.map[f]]]
    /\ faulted' = TRUE
    /\ out' = {}
    /\ UNCHANGED <<work, unreadable, initialized, snapshotExists, snapshot,
                   deleted, versionFile, changelog, pc, locals, runs, now>>

CorruptNext ==
    \/ \E p \in Paths, c \in Contents : WriteFile(p, c)
    \/ \E p \in Paths : RemoveFile(p)
    \/ \E p \in Paths : MakeUnreadable(p)
    \/ initGitnot
    \/ updateBegin
    \/ updateChangelogs
    \/ updateDeleted
    \/ updateSnapshot
    \/ updateSave
    \/ showStatus
    \/ removeHashes
    \/ garbleHashes
    \/ mistypeHashes

CorruptSpec == Init /\ [][CorruptNext]_vars

\* ------------------------------------------------------------------ claims

\* the warnings of a snapshot rebuild that did not replace the mirror
Warnings ==
    {"Could not create temp directory", "Could not update snapshot",
     "Could not remove old snapshot", "Could not move new snapshot"}

\* the classification a call of updateGitnot would compute in this state
Pending ==
    NewFiles(loadJSON(hashes), CurrentHashes)
        \cup ChangedFiles(loadJSON(hashes), CurrentHashes)
        \cup DeletedFiles(loadJSON(hashes), CurrentHashes)

IsPrefix(s, t) == Len(s) <= Len(t) /\ SubSeq(t, 1, Len(s)) = s

Last(s) == s[Len(s)]

\* C1: hashes.json is written only if the snapshot mirror was replaced: a
\* run whose rebuild printed a warning leaves hashes.json as it was.
C1_HashesOnlyAfterSwap ==
    [][(pc = "save" /\ out \cap Warnings # {}) => hashes' = hashes]_vars

\* C2: when an Update that detected changes persists the fingerprints and
\* returns, the snapshot mirror holds exactly the current tracked files
\* with their live content.
C2_SnapshotFidelity ==
    [][(updateSave /\ unreadable = {})
          => (snapshotExists' /\ snapshot' = work')]_vars

\* a call of updateGitnot returns in this step
UpdateReturns ==
    (updateBegin \/ updateSnapshot \/ updateSave) /\ pc' = "idle"

\* C3 as stated: whenever a call of Update returns in an initialized state,
\* a second call with the working files as they are detects nothing, and a
\* call that follows any returned Update call writes nothing and reports
\* "no changes".
C3_IdempotentAlways ==
    [][/\ (UpdateReturns /\ initialized) => Pending' = {}
       /\ (updateBegin /\ initialized
              /\ out \cap {"No changes detected", "Version bumped",
                            "Snapshot folder missing"} # {})
             => (UNCHANGED stores /\ out' = {"No changes detected"})]_vars

\* C3, amended: the same, for a first call that did not abort on a missing
\* snapshot directory.
C3_Idempotent ==
    [][/\ (UpdateReturns /\ initialized
              /\ "Snapshot folder missing" \notin out')
             => Pending' = {}
       /\ (updateBegin /\ initialized
              /\ out \cap {"No changes detected", "Version bumped"} # {}
              /\ "Snapshot folder missing" \notin out)
             => (UNCHANGED stores /\ out' = {"No changes detected"})]_vars

\* a checkpoint was persisted, and the call after it found nothing to do
C3_Witness ==
    /\ out = {"No changes detected"}
    /\ readVersion = 1
    /\ hashes.map = CurrentHashes
    /\ DOMAIN work # {}

\* C4: in every step of an Update call the version stays or rises; it rises
\* by exactly one tenth in the call's first step when new, changed or
\* deleted files are detected, and stays as it is in every other step.
C4_VersionMonotonic ==
    [][updateGitnot =>
          IF pc = "idle" /\ initialized /\ Pending # {}
          THEN readVersion' = readVersion + 1
          ELSE readVersion' = readVersion]_vars

\* a second checkpoint has just bumped the version to 0.2
C4_Witness == pc = "changelogs" /\ ver = 2 /\ readVersion = 2

\* C5: an Update call that classifies no file as new, changed or deleted
\* leaves version.txt, the changelogs, the snapshot mirror, the deleted
\* store and hashes.json as they were and reports "no changes".
C5_NoOpUpdate ==
    [][(updateBegin /\ initialized
          /\ NewFiles(loadJSON(hashes), CurrentHashes) = {}
          /\ ChangedFiles(loadJSON(hashes), CurrentHashes) = {}
          /\ DeletedFiles(loadJSON(hashes), CurrentHashes) = {})
         => (UNCHANGED stores /\ pc' = "idle"
                /\ out' = {"No changes detected"})]_vars

\* a no-op call after two checkpoints, with files tracked
C5_Witness ==
    /\ out = {"No changes detected"}
    /\ readVersion = 2
    /\ DOMAIN hashes.map = Paths

\* C6: the stored and the current fingerprint maps split the union of their
\* paths into new (only current), changed (both, fingerprints differ),
\* deleted (only stored) and unchanged (both, fingerprints equal): pairwise
\* disjoint, and together the whole union.
C6_ClassificationPartition ==
    LET old == loadJSON(hashes)
        cur == CurrentHashes
        N == NewFiles(old, cur)
        C == ChangedFiles(old, cur)
        D == DeletedFiles(old, cur)
        all == DOMAIN old \cup DOMAIN cur
        both == DOMAIN old \cap DOMAIN cur
        same == all \ (N \cup C \cup D)
    IN /\ N = DOMAIN cur \ DOMAIN old
       /\ D = DOMAIN old \ DOMAIN cur
       /\ C = {f \in both : old[f] # cur[f]}
       /\ same = {f \in both : old[f] = cur[f]}
       /\ N \cap C = {} /\ N \cap D = {} /\ C \cap D = {}
       /\ N \cup C \cup D \cup same = all

\* one file changed and the other deleted, seen by a running Update
C6_Witness ==
    /\ pc = "changelogs"
    /\ ChangedFiles(oldHashes, current) # {}
    /\ DeletedFiles(oldHashes, current) # {}

\* one mirror holds only files of the other, with their content
SubMirror(m, of) == DOMAIN m \subseteq DOMAIN of /\ \A p \in DOMAIN m : m[p] = of[p]

C8_DeletedContentKept ==
    [][updateDeleted =>
          \A p \in DeletedFiles(oldHashes, current) \cap DOMAIN snapshot :
              p \in DOMAIN deleted' /\ deleted'[p] = snapshot[p]]_vars

C10_ChangelogAppendOnly ==
    [][\A p \in Paths : IsPrefix(changelog[p], changelog'[p])]_vars

\* a deleted file's changelog outlives its working file and snapshot copy
C10_Witness ==
    /\ pc = "idle"
    /\ \E f \in Paths :
          /\ f \notin DOMAIN work
          /\ f \notin DOMAIN snapshot
          /\ Len(changelog[f]) >= 2
          /\ Last(changelog[f]).body = "File was deleted."

\* the version stamps of a changelog never decrease from one entry to the next
VersionOrdered(log) ==
    \A i \in 1..(Len(log) - 1) : log[i].ver <= log[i + 1].ver

\* C11: in every reachable state the entries of each file's changelog are in
\* non-decreasing order of their version stamp, whatever Initialize and
\* Update calls were made.
C11_ChangelogVersionOrder == \A p \in Paths : VersionOrdered(changelog[p])

\* C12: when an Update run that detected changes finds the snapshot
\* directory missing, it ends with the instruction to reinitialize, prints
\* no success summary, and hashes.json is what the run loaded at its start.
C12_MissingMirrorAborts ==
    [][(updateSnapshot /\ ~snapshotExists) =>
          /\ "Snapshot folder missing" \in out'
          /\ "Version bumped" \notin out'
          /\ pc' = "idle"
          /\ hashes' = hashes
          /\ loadJSON(hashes') = oldHashes]_vars

\* a run has aborted on the missing mirror: the stored fingerprints are
\* still the old ones and the changes are still pending
C12_Witness ==
    /\ pc = "idle"
    /\ "Snapshot folder missing" \in out
    /\ ~snapshotExists
    /\ DOMAIN hashes.map # {}
    /\ Pending # {}

\* C13: Update and Status called while the state directory does not exist
\* each report "gitnot not initialized" and change nothing on disk.
C13_NotInitializedNoEffect ==
    [][((updateGitnot \/ showStatus) /\ ~initialized) =>
          /\ out' = {"gitnot not initialized"}
          /\ pc' = "idle"
          /\ UNCHANGED <<work, unreadable, stores>>]_vars

\* a call was refused in a directory that has files to track
C13_Witness ==
    /\ ~initialized
    /\ out = {"gitnot not initialized"}
    /\ DOMAIN work # {}

\* C14: a Status call leaves version.txt, hashes.json, every changelog, the
\* snapshot mirror and the deleted store as they were, whatever files are
\* new, changed or deleted.
C14_StatusReadOnly ==
    [][showStatus => UNCHANGED <<work, unreadable, stores>>]_vars

\* Status has reported a new, a modified or a deleted file, and the change
\* is still pending
C14_Witness ==
    /\ initialized
    /\ out \cap {"Status: New files", "Status: Modified", "Status: Deleted"}
          # {}
    /\ Cardinality(Pending) = 2

IsOriginal(log) == log = <<Entry(0, "original")>>

InBlock(blocks, side, j) ==
    \E k \in 1..Len(blocks) :
        blocks[k][side] < j /\ j <= blocks[k][side] + blocks[k][3]

\* the lines of text that are in no matching block, each with its line
\* number and its content
LinesOutside(text, blocks, side) ==
    LET all == [j \in 1..Len(text) |-> [ln |-> j, text |-> text[j]]]
        Outside(e) == ~InBlock(blocks, side, e.ln)
    IN SelectSeq(all, Outside)

\* the lines of new that old does not have
NewLines(old, new) ==
    LinesOutside(new, MatchingBlocks(old, new, 0, Len(old), 0, Len(new)), 2)

\* the lines of old that new does not have
OldLines(old, new) ==
    LinesOutside(old, MatchingBlocks(old, new, 0, Len(old), 0, Len(new)), 1)

\* C16: when a tracked file's content has changed since its checkpoint,
\* Update raises the version by one tenth and appends to the file's
\* changelog one entry, stamped with the new version, whose Added section
\* lists the new lines and whose Removed section lists the old lines, each
\* with its line number and its content.
C16_ModificationCheckpoint ==
    [][/\ (updateBegin /\ initialized
              /\ ChangedFiles(loadJSON(hashes), CurrentHashes) # {})
             => (readVersion' = readVersion + 1 /\ ver' = readVersion')
       /\ updateChangelogs =>
             \A f \in ChangedFiles(oldHashes, current) :
                 (/\ CanOpen(f)
                  /\ f \in DOMAIN snapshot
                  /\ oldHashes[f] = <<"sha1">> \o snapshot[f])
                 => changelog'[f] =
                       Append(changelog[f],
                              [ver |-> readVersion, ts |-> ts, body |-> "diff",
                               added |-> NewLines(snapshot[f], work[f]),
                               removed |-> OldLines(snapshot[f], work[f])])]_vars

\* the scenario of C16 alone: a.txt "x" becomes "y"
C16_Scenario ==
    [][updateChangelogs =>
          \A f \in ChangedFiles(oldHashes, current) :
              (/\ f \in DOMAIN snapshot
               /\ snapshot[f] = << <<"x">> >>
               /\ ReadWork(f) = << <<"y">> >>)
              => /\ Last(changelog'[f]).added = <<[ln |-> 1, text |-> <<"y">>]>>
                 /\ Last(changelog'[f]).removed = <<[ln |-> 1, text |-> <<"x">>]>>
                 /\ Last(changelog'[f]).ver = readVersion]_vars

C18_VersionArithmetic ==
    [][/\ (~versionFile.exists \/ ~Parsable(versionFile.text))
             => readVersion = 0
       /\ \A v \in 0..MaxVersion : VersionWrite(v) => readVersion' = v
       /\ VersionBump =>
             (readVersion' = readVersion + 1 /\ ver' = readVersion + 1)
       /\ (~faulted /\ runs > 0) =>
             (/\ readVersion = runs
              /\ versionFile.text = <<runs \div 10, runs % 10>>)]_vars

\* 1.5 was written and bumped to 1.6
C18_Witness ==
    /\ faulted
    /\ runs = 1
    /\ ver = 16
    /\ versionFile = [exists |-> TRUE, text |-> <<1, 6>>]

\* ten bumps from 0.0 have given 1.0
C18_WitnessTenBumps ==
    /\ ~faulted
    /\ runs = 10
    /\ versionFile = [exists |-> TRUE, text |-> <<1, 0>>]

\* C19: hashes.json is written by the last step of an Update run and by no
\* step before it; while a run is under way, and when it is interrupted
\* before that step, hashes.json holds what the run loaded; and a run
\* started after the interruption, with the working files as they were,
\* loads the same stored fingerprints and computes the same current ones,
\* so its NewFiles, ChangedFiles and DeletedFiles are those of the
\* interrupted run.
C19_InterruptedUpdate ==
    [][/\ pc # "idle" => loadJSON(hashes) = oldHashes
       /\ (updateGitnot /\ hashes' # hashes) =>
             (pc = "save" /\ pc' = "idle"
                 /\ UNCHANGED <<versionFile, changelog, snapshot, deleted>>)
       /\ interruptUpdate =>
             (/\ hashes' = hashes
              /\ loadJSON(hashes') = oldHashes
              /\ CurrentHashes' = current)
       /\ (updateBegin /\ "interrupted" \in out) =>
             /\ pc' = "changelogs"
             /\ NewFiles(oldHashes', current') = NewFiles(oldHashes, current)
             /\ ChangedFiles(oldHashes', current')
                   = ChangedFiles(oldHashes, current)
             /\ DeletedFiles(oldHashes', current')
                   = DeletedFiles(oldHashes, current)]_vars

\* a run that had found a changed and a deleted file was interrupted after
\* it wrote its changelog entries: hashes.json is as the run loaded it, and
\* another run can start
C19_Witness ==
    /\ pc = "idle"
    /\ out = {"interrupted"}
    /\ runs < MaxRuns
    /\ hashes.map = oldHashes
    /\ ChangedFiles(oldHashes, current) # {}
    /\ DeletedFiles(oldHashes, current) # {}
    /\ \E f \in ChangedFiles(oldHashes, current) :
          /\ Len(changelog[f]) >= 2
          /\ Last(changelog[f]).ver = readVersion

\* C20: what an Update call has printed when it returns is one outcome
\* alone: "no changes", the success summary, or an error or warning line; in
\* particular never a warning of a failed snapshot step together with the
\* success summary.
C20_OneOutcome ==
    pc = "idle" =>
        Cardinality(out \cap ({"No changes detected", "Version bumped",
                               "gitnot not initialized",
                               "Snapshot folder missing"} \cup Warnings)) <= 1

\* the entry bodies that are one fixed line
Notices ==
    {"New file added.", "File was deleted.",
     "File changed (no readable diff)",
     "File changed (encoding issues, diff skipped)"}

\* an entry with a body: a fixed line, or an Added or a Removed section
\* with at least one line
HasBody(e) ==
    \/ e.body \in Notices
    \/ e.body = "diff" /\ (e.added # <<>> \/ e.removed # <<>>)

\* C21: every entry an Update run appends to a changelog has a non-empty
\* body: "New file added.", "File was deleted.", a degraded-diff notice, or
\* an Added and/or a Removed section with at least one line.
C21_EntryHasBody ==
    [][(updateChangelogs \/ updateDeleted) =>
          \A p \in Paths :
              changelog'[p] # changelog[p] => HasBody(Last(changelog'[p]))]_vars

\* a removed line directly followed by an added line that is the same but
\* for surrounding blanks: the last line of a before the block at m1 and the
\* first line of b before m2
BlankPair(a, i, m1, b, j, m2) ==
    m1 > i /\ m2 > j /\ TrimSpace(a[m1]) = TrimSpace(b[j + 1])

\* lines text[from .. to], each with its position in text and its content
\* without surrounding blanks
Numbered(text, from, to) ==
    [k \in 1..(IF to >= from THEN to - from + 1 ELSE 0) |->
        [ln |-> from + k - 1, text |-> TrimSpace(text[from + k - 1])]]

\* the Removed entries a diff with these matching blocks should give: the
\* lines of a outside the blocks, but for those in a blank pair
RECURSIVE RemovedEntries(_, _, _, _, _)
RemovedEntries(a, b, blocks, i, j) ==
    LET m1 == IF blocks = <<>> THEN Len(a) ELSE Head(blocks)[1]
        m2 == IF blocks = <<>> THEN Len(b) ELSE Head(blocks)[2]
        gap == Numbered(a, i + 1,
                        IF BlankPair(a, i, m1, b, j, m2) THEN m1 - 1 ELSE m1)
    IN IF blocks = <<>>
       THEN gap
       ELSE gap \o RemovedEntries(a, b, Tail(blocks),
                                  m1 + Head(blocks)[3], m2 + Head(blocks)[3])

\* the Added entries: the lines of b outside the blocks, but for those in
\* a blank pair
RECURSIVE AddedEntries(_, _, _, _, _)
AddedEntries(a, b, blocks, i, j) ==
    LET m1 == IF blocks = <<>> THEN Len(a) ELSE Head(blocks)[1]
        m2 == IF blocks = <<>> THEN Len(b) ELSE Head(blocks)[2]
        gap == Numbered(b,
                        IF BlankPair(a, i, m1, b, j, m2) THEN j + 2 ELSE j + 1,
                        m2)
    IN IF blocks = <<>>
       THEN gap
       ELSE gap \o AddedEntries(a, b, Tail(blocks),
                                m1 + Head(blocks)[3], m2 + Head(blocks)[3])

\* C22: for the unified diff of a file's snapshot copy and its new text,
\* formatDiffAsMarkdown gives one Removed entry for each removed line that
\* is not in a blank pair, with the line's position in the old text and its
\* trimmed content, and one Added entry for each such added line, with its
\* position in the new text.
C22_LineNumbering ==
    [][updateChangelogs =>
          \A f \in ChangedFiles(oldHashes, current) :
              (f \in DOMAIN snapshot /\ snapshot[f] # ReadWork(f)) =>
                  LET a == snapshot[f]
                      b == ReadWork(f)
                      blocks == MatchingBlocks(a, b, 0, Len(a), 0, Len(b))
                  IN /\ Last(changelog'[f]).removed
                           = RemovedEntries(a, b, blocks, 0, 0)
                     /\ Last(changelog'[f]).added
                           = AddedEntries(a, b, blocks, 0, 0)]_vars

\* C23: every changelog entry an Update run appends, for a new, a changed
\* or a deleted file, carries the version the run wrote to version.txt and
\* the one timestamp the run took at its start, however much time passes
\* during the run.
C23_OneVersionOneTimestamp ==
    [][/\ (updateBegin /\ pc' = "changelogs") =>
             (ver' = readVersion' /\ ts' = now)
       /\ (updateChangelogs \/ updateDeleted) =>
             /\ UNCHANGED <<ver, ts, versionFile>>
             /\ ver = readVersion
             /\ \A p \in Paths :
                   changelog'[p] # changelog[p] =>
                       /\ Len(changelog'[p]) = Len(changelog[p]) + 1
                       /\ Last(changelog'[p]).ver = ver
                       /\ Last(changelog'[p]).ts = ts]_vars

\* a run has written the entry of a changed or new file and, a minute
\* later, the entry of a deleted file: both under its version and its
\* timestamp
C23_Witness ==
    /\ pc = "snapshot"
    /\ now > ts
    /\ \E p, q \in Paths :
          /\ p \in DOMAIN current
          /\ q \in DeletedFiles(oldHashes, current)
          /\ Last(changelog[q]).body = "File was deleted."
          /\ Last(changelog[p]).ver = ver /\ Last(changelog[q]).ver = ver
          /\ Last(changelog[p]).ts = ts /\ Last(changelog[q]).ts = ts
          /\ ts > 0


\* C24: when an Update that detected changes writes hashes.json at the end of
\* the run, the keys of the stored map are exactly the files tracked now:
\* the new files are in, the deleted files are out; and every key maps to the
\* fingerprint the run computed for it.
C24_FingerprintMapKeys ==
    [][updateSave =>
          /\ hashes'.exists
          /\ DOMAIN hashes'.map = getAllTextFiles
          /\ NewFiles(oldHashes, current) \subseteq DOMAIN hashes'.map
          /\ DeletedFiles(oldHashes, current) \cap DOMAIN hashes'.map = {}
          /\ \A f \in DOMAIN hashes'.map :
                hashes'.map[f] = current[f] /\ current[f] = hashFile(f)]_vars

\* a run about to save that found a new file, a deleted file and a file it
\* could not open
C24_Witness ==
    /\ pc = "save"
    /\ NewFiles(oldHashes, current) # {}
    /\ DeletedFiles(oldHashes, current) # {}
    /\ \E f \in DOMAIN current : ~CanOpen(f)


\* the changed files of the run in progress whose snapshot copy is missing
\* although the snapshot directory is there
Degraded ==
    {f \in ChangedFiles(oldHashes, current) :
        snapshotExists /\ f \notin DOMAIN snapshot}

\* C26: a changed file whose snapshot copy is missing, the snapshot directory
\* being there, gets the "diff skipped" note under the bumped version, and the
\* run does not end there: the other changed files get their entries, the
\* deleted files theirs, the mirror is rebuilt (the run goes to the save, it
\* does not stop at the rebuild) and the fingerprints of the run are written.
C26_DegradedDiff ==
    [][/\ (pc = "changelogs" /\ Degraded # {}) =>
             /\ pc' = "deleted"
             /\ ver = readVersion
             /\ \A f \in Degraded :
                   changelog'[f] =
                      Append(changelog[f],
                             Stamped(Entry(ver,
                                "File changed (encoding issues, diff skipped)")))
             /\ \A g \in ChangedFiles(oldHashes, current) \cup
                          NewFiles(oldHashes, current) :
                   /\ Len(changelog'[g]) = Len(changelog[g]) + 1
                   /\ Last(changelog'[g]).ver = ver
             /\ Degraded' = Degraded
       /\ (pc = "deleted" /\ Degraded # {}) =>
             /\ pc' = "snapshot"
             /\ \A d \in DeletedFiles(oldHashes, current) :
                   changelog'[d] =
                      Append(changelog[d],
                             Stamped(Entry(ver, "File was deleted.")))
             /\ Degraded' = Degraded
       /\ (pc = "snapshot" /\ Degraded # {}) => pc' = "save"
       /\ pc = "save" =>
             /\ pc' = "idle"
             /\ hashes' = saveJSON(current)
             /\ "Version bumped" \in out']_vars

\* a run that has written the note for a changed file without snapshot copy
\* and the entry of a deleted file after it
C26_Witness ==
    /\ pc = "snapshot"
    /\ \E f \in Degraded :
          Last(changelog[f]).body =
             "File changed (encoding issues, diff skipped)"
    /\ \E d \in DeletedFiles(oldHashes, current) :
          Last(changelog[d]).body = "File was deleted."


\* C27: with the state directory there and hashes.json missing or not
\* loadable, Status reports every tracked file as new and nothing as modified
\* or deleted, and Update takes the stored map as empty: it ends with "no
\* changes" when no file is tracked, and otherwise starts a run in which every
\* tracked file is new and none is changed or deleted.
C27_UnreadableStoreIsEmpty ==
    [][(pc = "idle" /\ initialized /\ loadJSONErr(hashes)) =>
          /\ showStatus =>
                out' = IF getAllTextFiles = {}
                       THEN {"Status: No changes detected"}
                       ELSE {"Status: New files"}
          /\ updateBegin =>
                IF getAllTextFiles = {}
                THEN out' = {"No changes detected"} /\ UNCHANGED stores
                ELSE /\ pc' = "changelogs"
                     /\ NewFiles(oldHashes', current') = getAllTextFiles
                     /\ ChangedFiles(oldHashes', current') = {}
                     /\ DeletedFiles(oldHashes', current') = {}]_vars

\* C25: in every initialized state between two runs, the new, changed and
\* deleted files Status computes are the ones an Update started in that state
\* computes, and Status has nothing to report exactly when that Update has
\* nothing to do.
C25_SharedClassification ==
    (pc = "idle" /\ initialized) =>
       LET cur == CurrentHashes
           s == loadJSON(hashes)
           u == loadOldHashes(hashes)
       IN /\ statusNewFiles(s, cur) = NewFiles(u, cur)
          /\ statusChangedFiles(s, cur) = ChangedFiles(u, cur)
          /\ statusDeletedFiles(s, cur) = DeletedFiles(u, cur)
          /\ statusNoChanges(s, cur) <=> NoChanges(u, cur)

====
